---------------------------- MODULE Spec2Model ----------------------------
(* Model of src/demo.py: main() sequencing a MongoDB Atlas vector-search   *)
(* index (list / create / poll), an optional Azure OpenAI embedding and    *)
(* $vectorSearch query, the index listing and the optional drop, and the   *)
(* release of the client in the finally block.  The document store and the *)
(* embedding service are external: their answers are nondeterministic.     *)
EXTENDS Integers, Sequences, FiniteSets, TLC

(***************************************************************************)
(* Bounds                                                                  *)
(***************************************************************************)
MaxPolls == 3
MaxRuns == 2

(***************************************************************************)
(* Program constants (scaled)                                              *)
(***************************************************************************)
VECTOR_DIMENSIONS == 2

VARIABLES
    pc,            \* position of main()
    conn,          \* ATLAS_CONNECTION_STRING of this run (sequence of tokens)
    mongo_client,  \* "None" | "open" | "closed"
    idx,           \* status of index INDEX_NAME in the store
    user_input,    \* last lower-cased operator answer
    query_vector,  \* value returned by generate_embedding
    sent_vector,   \* queryVector placed in the $vectorSearch pipeline
    outcome,       \* which exit path main() took
    log,           \* calls made by this run, in order
    run,           \* number of the current invocation of main()
    createReqs,    \* create_search_index requests issued, all runs
    createsOk,     \* create_search_index requests that succeeded, all runs
    dropsOk        \* drop_search_index requests that succeeded, all runs

vars == <<pc, conn, mongo_client, idx, user_input, query_vector, sent_vector,
          outcome, log, run, createReqs, createsOk, dropsOk>>

(***************************************************************************)
(* Values                                                                  *)
(***************************************************************************)
\* Connection strings as token sequences: the default of the source, an
\* unset one, the template with its placeholder, and a malformed URI.
ConnStrings ==
    { <<"mongodb://", "localhost:27017">>,
      <<>>,
      <<"mongodb+srv://", "<username>", ":", "<password>", "@cluster">>,
      <<"localhost:27017">> }

\* Status of the index in the store.  UNLISTED: created, not yet returned by
\* list_search_indexes.
IndexStates == {"ABSENT", "UNLISTED", "PENDING", "BUILDING", "READY", "FAILED"}
Terminal == {"READY", "FAILED"}

ErrKinds == {"OperationFailure", "ConnectionFailure"}

\* Operator answers, as sequences of characters.
Answers == { <<"y","e","s">>, <<"Y","E","S">>, <<"n","o">>, <<>> }
Yes == <<"y","e","s">>

\* Embeddings the service may return.
Vectors == { <<>>, <<1>>, <<1, 2>> }
None == [isNone |-> TRUE, vec |-> <<>>]
Some(v) == [isNone |-> FALSE, vec |-> v]

(***************************************************************************)
(* Pure helpers                                                            *)
(***************************************************************************)
LowerChar(c) ==
    CASE c = "Y" -> "y"
      [] c = "E" -> "e"
      [] c = "S" -> "s"
      [] c = "N" -> "n"
      [] c = "O" -> "o"
      [] OTHER -> c

Lower(s) == [i \in DOMAIN s |-> LowerChar(s[i])]

Contains(s, tok) == \E i \in DOMAIN s : s[i] = tok

BadConnectionStringEmptyOnly(s) == s = <<>>

\* if not ATLAS_CONNECTION_STRING or "<username>" in ATLAS_CONNECTION_STRING
BadConnectionString(s) == s = <<>> \/ Contains(s, "<username>")

\* pymongo accepts only mongodb:// and mongodb+srv:// URIs
WellFormedUri(s) == Len(s) > 0 /\ s[1] \in {"mongodb://", "mongodb+srv://"}

\* what list_search_indexes() shows of the target index
Listed(st) == st \notin {"ABSENT", "UNLISTED"}

IndexPresentNever(st) == FALSE

\* INDEX_NAME in existing_indexes
IndexPresent(st) == Listed(st)

\* list(collection.list_search_indexes(name=INDEX_NAME)), then .get('status')
Observe(st) == IF Listed(st) THEN st ELSE "EMPTY"

AfterObservationBuildingExits(obs) ==
    CASE obs = "EMPTY" -> "sleep"
      [] obs = "READY" -> "input_search"
      [] obs = "FAILED" -> "finally"
      [] obs = "BUILDING" -> "input_search"
      [] OTHER -> "sleep"

AfterObservationFailedContinues(obs) ==
    CASE obs = "EMPTY" -> "sleep"
      [] obs = "READY" -> "input_search"
      [] obs = "FAILED" -> "input_search"
      [] OTHER -> "sleep"

\* where the poll loop goes after one observation
AfterObservation(obs) ==
    CASE obs = "EMPTY" -> "sleep"
      [] obs = "READY" -> "input_search"
      [] obs = "FAILED" -> "finally"
      [] OTHER -> "sleep"

AffirmedUnlessNo(s) == s # <<"n", "o">>

\* user_input == 'yes'
Affirmed(s) == s = Yes

PipelineQueryVectorPadded(q) ==
    [q EXCEPT !.vec = [i \in 1..VECTOR_DIMENSIONS |->
                         IF i <= Len(q.vec) THEN q.vec[i] ELSE 0]]

\* "queryVector": query_vector
PipelineQueryVector(q) == q

TruthyAlways(q) == TRUE

\* if query_vector:
Truthy(q) == ~q.isNone /\ Len(q.vec) > 0

\* st: the status of the index when it was listed or queried
Entry(op, res) ==
    [op |-> op, res |-> res, typed |-> <<>>,
     st |-> IF op \in {"list", "aggregate"} THEN idx ELSE "-"]
Logged(op, res) == log' = Append(log, Entry(op, res))
\* a prompt, with the answer as the operator typed it
LoggedAnswer(op, res, a) ==
    log' = Append(log, [Entry(op, res) EXCEPT !.typed = a])

Count(op) == Cardinality({i \in DOMAIN log : log[i].op = op})
Has(op, res) == \E i \in DOMAIN log : log[i].op = op /\ log[i].res = res
Did(op) == \E i \in DOMAIN log : log[i].op = op

(***************************************************************************)
(* Initial state                                                           *)
(***************************************************************************)
Init ==
    /\ pc = "start"
    /\ conn \in ConnStrings
    /\ mongo_client = "None"
    /\ idx \in IndexStates
    /\ user_input = <<>>
    /\ query_vector = None
    /\ sent_vector = None
    /\ outcome = "running"
    /\ log = <<>>
    /\ run = 1
    /\ createReqs = 0
    /\ createsOk = 0
    /\ dropsOk = 0

(***************************************************************************)
(* The external store                                                      *)
(***************************************************************************)
\* the asynchronous index build
StoreAdvance ==
    /\ \/ idx = "UNLISTED" /\ idx' = "PENDING"
       \/ idx = "PENDING" /\ idx' = "BUILDING"
       \/ idx = "BUILDING" /\ idx' \in Terminal
    /\ UNCHANGED <<pc, conn, mongo_client, user_input, query_vector,
                   sent_vector, outcome, log, run, createReqs, createsOk,
                   dropsOk>>

\* another client creates the index between the check and the create call
StoreOtherCreate ==
    /\ pc = "create"
    /\ idx = "ABSENT"
    /\ idx' = "UNLISTED"
    /\ UNCHANGED <<pc, conn, mongo_client, user_input, query_vector,
                   sent_vector, outcome, log, run, createReqs, createsOk,
                   dropsOk>>

(***************************************************************************)
(* main()                                                                  *)
(***************************************************************************)
Exit(how) == pc' = "finally" /\ outcome' = how

\* lines 49-55
CheckConfig ==
    /\ pc = "start"
    /\ IF BadConnectionString(conn)
         THEN Exit("config")
         ELSE pc' = "connect" /\ UNCHANGED outcome
    /\ UNCHANGED <<conn, mongo_client, idx, user_input, query_vector,
                   sent_vector, log, run, createReqs, createsOk, dropsOk>>

\* line 57
Connect ==
    /\ pc = "connect"
    /\ \/ /\ WellFormedUri(conn)
          /\ mongo_client' = "open"
          /\ Logged("MongoClient", "ok")
          /\ pc' = "ping"
          /\ UNCHANGED outcome
       \/ /\ ~WellFormedUri(conn)
          /\ Logged("MongoClient", "ConfigurationError")
          /\ Exit("config")
          /\ UNCHANGED mongo_client
       \/ /\ Logged("MongoClient", "ConnectionFailure")
          /\ Exit("connection")
          /\ UNCHANGED mongo_client
    /\ UNCHANGED <<conn, idx, user_input, query_vector, sent_vector, run,
                   createReqs, createsOk, dropsOk>>

PingFailureIgnored ==
    /\ pc = "ping"
    /\ \/ Logged("ping", "ok")
       \/ Logged("ping", "ConnectionFailure")
    /\ pc' = "list"
    /\ UNCHANGED <<conn, mongo_client, idx, user_input, query_vector,
                   sent_vector, outcome, run, createReqs, createsOk, dropsOk>>

\* lines 58-79
Ping ==
    /\ pc = "ping"
    /\ \/ /\ Logged("ping", "ok")
          /\ pc' = "list"
          /\ UNCHANGED outcome
       \/ /\ Logged("ping", "ConnectionFailure")
          /\ Exit("connection")
    /\ UNCHANGED <<conn, mongo_client, idx, user_input, query_vector,
                   sent_vector, run, createReqs, createsOk, dropsOk>>

\* lines 85-87, and the handlers at 107-113 and 175-178
ListSearchIndexes ==
    /\ pc = "list"
    /\ \/ /\ IndexPresent(idx)
          /\ Logged("list", "present")
          /\ pc' = "input_search"
          /\ UNCHANGED outcome
       \/ /\ ~IndexPresent(idx)
          /\ Logged("list", "absent")
          /\ pc' = "create"
          /\ UNCHANGED outcome
       \/ /\ Logged("list", "OperationFailure")
          /\ Exit("index_error")
       \/ /\ Logged("list", "ConnectionFailure")
          /\ Exit("connection")
    /\ UNCHANGED <<conn, mongo_client, idx, user_input, query_vector,
                   sent_vector, run, createReqs, createsOk, dropsOk>>

CreateSearchIndexAnyFailureTolerated ==
    /\ pc = "create"
    /\ createReqs' = createReqs + 1
    /\ \/ /\ idx = "ABSENT"
          /\ idx' = "UNLISTED"
          /\ createsOk' = createsOk + 1
          /\ Logged("create", "ok")
          /\ pc' = "poll"
          /\ UNCHANGED outcome
       \/ /\ idx # "ABSENT"
          /\ Logged("create", "AlreadyExists")
          /\ pc' = "input_search"
          /\ UNCHANGED <<idx, createsOk, outcome>>
       \/ /\ Logged("create", "OperationFailure")
          /\ pc' = "input_search"
          /\ UNCHANGED <<idx, createsOk, outcome>>
       \/ /\ Logged("create", "ConnectionFailure")
          /\ Exit("connection")
          /\ UNCHANGED <<idx, createsOk>>
    /\ UNCHANGED <<conn, mongo_client, user_input, query_vector, sent_vector,
                   run, dropsOk>>

\* lines 89-90, and the handlers at 107-113 and 175-178
CreateSearchIndex ==
    /\ pc = "create"
    /\ createReqs' = createReqs + 1
    /\ \/ /\ idx = "ABSENT"
          /\ idx' = "UNLISTED"
          /\ createsOk' = createsOk + 1
          /\ Logged("create", "ok")
          /\ pc' = "poll"
          /\ UNCHANGED outcome
       \/ /\ idx # "ABSENT"
          /\ Logged("create", "AlreadyExists")
          /\ pc' = "input_search"
          /\ UNCHANGED <<idx, createsOk, outcome>>
       \/ /\ Logged("create", "OperationFailure")
          /\ Exit("index_error")
          /\ UNCHANGED <<idx, createsOk>>
       \/ /\ Logged("create", "ConnectionFailure")
          /\ Exit("connection")
          /\ UNCHANGED <<idx, createsOk>>
    /\ UNCHANGED <<conn, mongo_client, user_input, query_vector, sent_vector,
                   run, dropsOk>>

PollStatusWithBudget ==
    /\ pc = "poll"
    /\ Count("poll") < MaxPolls \/ idx \in Terminal
    /\ \/ /\ Logged("poll", Observe(idx))
          /\ IF Count("poll") >= 1 /\ Observe(idx) \notin Terminal
               THEN Exit("index_error")
               ELSE /\ pc' = AfterObservation(Observe(idx))
                    /\ outcome' = IF AfterObservation(Observe(idx)) = "finally"
                                    THEN "index_failed" ELSE outcome
       \/ /\ Logged("poll", "OperationFailure")
          /\ Exit("index_error")
       \/ /\ Logged("poll", "ConnectionFailure")
          /\ Exit("connection")
    /\ UNCHANGED <<conn, mongo_client, idx, user_input, query_vector,
                   sent_vector, run, createReqs, createsOk, dropsOk>>

\* lines 92-105: one status observation of the poll loop
PollStatus ==
    /\ pc = "poll"
    /\ Count("poll") < MaxPolls \/ idx \in Terminal
    /\ \/ /\ Logged("poll", Observe(idx))
          /\ pc' = AfterObservation(Observe(idx))
          /\ outcome' = IF AfterObservation(Observe(idx)) = "finally"
                          THEN "index_failed" ELSE outcome
       \/ /\ Logged("poll", "OperationFailure")
          /\ Exit("index_error")
       \/ /\ Logged("poll", "ConnectionFailure")
          /\ Exit("connection")
    /\ UNCHANGED <<conn, mongo_client, idx, user_input, query_vector,
                   sent_vector, run, createReqs, createsOk, dropsOk>>

\* lines 96 and 106: time.sleep(10)
Sleep ==
    /\ pc = "sleep"
    /\ Logged("sleep", "ok")
    /\ pc' = "poll"
    /\ UNCHANGED <<conn, mongo_client, idx, user_input, query_vector,
                   sent_vector, outcome, run, createReqs, createsOk, dropsOk>>

\* lines 116-118
PromptSearch ==
    /\ pc = "input_search"
    /\ \/ \E a \in Answers :
            /\ user_input' = Lower(a)
            /\ LoggedAnswer("input_search",
                            IF Affirmed(Lower(a)) THEN "yes" ELSE "other", a)
            /\ pc' = IF Affirmed(Lower(a)) THEN "azure" ELSE "list_display"
            /\ UNCHANGED outcome
       \/ /\ Logged("input_search", "EOFError")
          /\ Exit("unexpected")
          /\ UNCHANGED user_input
    /\ UNCHANGED <<conn, mongo_client, idx, query_vector, sent_vector, run,
                   createReqs, createsOk, dropsOk>>

\* lines 119-127, and the handler at 157-158
AzureOpenAIClient ==
    /\ pc = "azure"
    /\ \/ /\ Logged("AzureOpenAI", "ok")
          /\ pc' = "embed"
       \/ /\ Logged("AzureOpenAI", "error")
          /\ pc' = "list_display"
    /\ UNCHANGED <<conn, mongo_client, idx, user_input, query_vector,
                   sent_vector, outcome, run, createReqs, createsOk, dropsOk>>

\* lines 26-41 and 128-130
generate_embedding ==
    /\ pc = "embed"
    /\ \/ \E v \in Vectors :
            /\ query_vector' = Some(v)
            /\ Logged("embed", "vector")
       \/ /\ query_vector' = None
          /\ Logged("embed", "None")
    /\ pc' = IF Truthy(query_vector') THEN "aggregate" ELSE "list_display"
    /\ UNCHANGED <<conn, mongo_client, idx, user_input, sent_vector, outcome,
                   run, createReqs, createsOk, dropsOk>>

AggregateErrorEscapes ==
    /\ pc = "aggregate"
    /\ sent_vector' = PipelineQueryVector(query_vector)
    /\ \/ /\ ~sent_vector'.isNone
          /\ Len(sent_vector'.vec) = VECTOR_DIMENSIONS
          /\ Logged("aggregate", "ok")
          /\ pc' = "list_display"
          /\ UNCHANGED outcome
       \/ \E e \in ErrKinds :
            /\ Logged("aggregate", e)
            /\ Exit("unexpected")
    /\ UNCHANGED <<conn, mongo_client, idx, user_input, query_vector,
                   run, createReqs, createsOk, dropsOk>>

\* lines 131-155, and the handler at 157-158
Aggregate ==
    /\ pc = "aggregate"
    /\ sent_vector' = PipelineQueryVector(query_vector)
    /\ \/ /\ ~sent_vector'.isNone
          /\ Len(sent_vector'.vec) = VECTOR_DIMENSIONS
          /\ Logged("aggregate", "ok")
       \/ \E e \in ErrKinds : Logged("aggregate", e)
    /\ pc' = "list_display"
    /\ UNCHANGED <<conn, mongo_client, idx, user_input, query_vector, outcome,
                   run, createReqs, createsOk, dropsOk>>

\* lines 160-163, and the handlers at 175-178
ListDisplay ==
    /\ pc = "list_display"
    /\ \/ /\ Logged("list_display", "ok")
          /\ pc' = "input_drop"
          /\ UNCHANGED outcome
       \/ /\ Logged("list_display", "OperationFailure")
          /\ Exit("unexpected")
       \/ /\ Logged("list_display", "ConnectionFailure")
          /\ Exit("connection")
    /\ UNCHANGED <<conn, mongo_client, idx, user_input, query_vector,
                   sent_vector, run, createReqs, createsOk, dropsOk>>

\* lines 165-171
PromptDrop ==
    /\ pc = "input_drop"
    /\ \/ \E a \in Answers :
            /\ user_input' = Lower(a)
            /\ LoggedAnswer("input_drop",
                            IF Affirmed(Lower(a)) THEN "yes" ELSE "other", a)
            /\ IF Affirmed(Lower(a))
                 THEN pc' = "drop" /\ UNCHANGED outcome
                 ELSE Exit("success")
       \/ /\ Logged("input_drop", "EOFError")
          /\ Exit("unexpected")
          /\ UNCHANGED user_input
    /\ UNCHANGED <<conn, mongo_client, idx, query_vector, sent_vector, run,
                   createReqs, createsOk, dropsOk>>

DropSearchIndexRetriesOnce ==
    /\ pc = "drop"
    /\ \/ /\ idx # "ABSENT"
          /\ idx' = "ABSENT"
          /\ dropsOk' = dropsOk + 1
          /\ Logged("drop", "ok")
          /\ Exit("success")
       \/ /\ Logged("drop", "OperationFailure")
          /\ IF Count("drop") = 0
               THEN pc' = "drop" /\ UNCHANGED outcome
               ELSE Exit("unexpected")
          /\ UNCHANGED <<idx, dropsOk>>
       \/ /\ Logged("drop", "ConnectionFailure")
          /\ Exit("connection")
          /\ UNCHANGED <<idx, dropsOk>>
    /\ UNCHANGED <<conn, mongo_client, user_input, query_vector, sent_vector,
                   run, createReqs, createsOk>>

\* lines 167-169, and the handlers at 175-178
DropSearchIndex ==
    /\ pc = "drop"
    /\ \/ /\ idx # "ABSENT"
          /\ idx' = "ABSENT"
          /\ dropsOk' = dropsOk + 1
          /\ Logged("drop", "ok")
          /\ Exit("success")
       \/ /\ Logged("drop", "OperationFailure")
          /\ Exit("unexpected")
          /\ UNCHANGED <<idx, dropsOk>>
       \/ /\ Logged("drop", "ConnectionFailure")
          /\ Exit("connection")
          /\ UNCHANGED <<idx, dropsOk>>
    /\ UNCHANGED <<conn, mongo_client, user_input, query_vector, sent_vector,
                   run, createReqs, createsOk>>

FinallyNoClose ==
    /\ pc = "finally"
    /\ pc' = "done"
    /\ UNCHANGED <<conn, mongo_client, idx, user_input, query_vector,
                   sent_vector, outcome, log, run, createReqs, createsOk,
                   dropsOk>>

\* lines 179-182
Finally ==
    /\ pc = "finally"
    /\ IF mongo_client # "None"
         THEN mongo_client' = "closed" /\ Logged("close", "ok")
         ELSE UNCHANGED <<mongo_client, log>>
    /\ pc' = "done"
    /\ UNCHANGED <<conn, idx, user_input, query_vector, sent_vector, outcome,
                   run, createReqs, createsOk, dropsOk>>

\* lines 184-185: the script is invoked again, against the same store
Restart ==
    /\ pc = "done"
    /\ run < MaxRuns
    /\ run' = run + 1
    /\ pc' = "start"
    /\ conn' \in ConnStrings
    /\ mongo_client' = "None"
    /\ user_input' = <<>>
    /\ query_vector' = None
    /\ sent_vector' = None
    /\ outcome' = "running"
    /\ log' = <<>>
    /\ UNCHANGED <<idx, createReqs, createsOk, dropsOk>>

Next ==
    \/ StoreAdvance
    \/ StoreOtherCreate
    \/ CheckConfig
    \/ Connect
    \/ Ping
    \/ ListSearchIndexes
    \/ CreateSearchIndex
    \/ PollStatus
    \/ Sleep
    \/ PromptSearch
    \/ AzureOpenAIClient
    \/ generate_embedding
    \/ Aggregate
    \/ ListDisplay
    \/ PromptDrop
    \/ DropSearchIndex
    \/ Finally
    \/ Restart

Spec == Init /\ [][Next]_vars

\* the steps of one invocation of main()
Main ==
    \/ CheckConfig
    \/ Connect
    \/ Ping
    \/ ListSearchIndexes
    \/ CreateSearchIndex
    \/ PollStatus
    \/ Sleep
    \/ PromptSearch
    \/ AzureOpenAIClient
    \/ generate_embedding
    \/ Aggregate
    \/ ListDisplay
    \/ PromptDrop
    \/ DropSearchIndex
    \/ Finally

\* main() is sequential and blocking: it takes its next step whenever the
\* call it waits for returns and the operator answers.  Nothing is assumed
\* of the store.
FairSpec == Spec /\ WF_vars(Main)

TypeOK ==
    /\ pc \in {"start", "connect", "ping", "list", "create", "poll", "sleep",
               "input_search", "azure", "embed", "aggregate", "list_display",
               "input_drop", "drop", "finally", "done"}
    /\ conn \in ConnStrings
    /\ mongo_client \in {"None", "open", "closed"}
    /\ idx \in IndexStates
    /\ run \in 1..(MaxRuns + 1)
    /\ createsOk <= createReqs

(***************************************************************************)
(* Claims                                                                  *)
(***************************************************************************)
Steps == {"input_search", "AzureOpenAI", "embed", "aggregate", "list_display",
          "input_drop", "drop"}
StoreOps == {"list", "create", "poll", "aggregate", "list_display", "drop"}
Prompts == {"input_search", "input_drop"}

\* C1: the similarity query is issued only while the status of the target
\* index is READY.
C1_SearchOnlyWhenReady ==
    \A i \in DOMAIN log : log[i].op = "aggregate" => log[i].st = "READY"

\* C2 (as stated): whatever the outcome of the run, close has been called
\* exactly once when main() ends.
C2_ClosedExactlyOnce == pc = "done" => Count("close") = 1

\* C2 (amended): close is never called twice; when main() ends it has been
\* called exactly once if the client was created, and not at all if it was
\* not (placeholder or empty connection string, failed construction).
C2_ClosedOnceIffCreated ==
    /\ Count("close") <= 1
    /\ pc = "done" =>
         Count("close") = (IF Has("MongoClient", "ok") THEN 1 ELSE 0)
    /\ pc = "done" /\ Has("MongoClient", "ok") => mongo_client = "closed"

C2_Witness ==
    /\ pc = "done"
    /\ outcome = "index_error"
    /\ Count("close") = 1

\* the poll observations that report a terminal status, up to entry j
TerminalSeen(i, j) ==
    \E k \in (i + 1)..(j - 1) : log[k].op = "poll" /\ log[k].res \in Terminal

\* C3 (as stated): create is never issued when the listing showed the index,
\* and two runs in sequence, with no drop in between, issue at most one
\* create request in total.
C3_AtMostOneCreateRequest ==
    /\ \A i \in DOMAIN log : log[i].op = "create" =>
         \E j \in 1..(i - 1) : log[j].op = "list" /\ ~Listed(log[j].st)
    /\ run <= 2 /\ dropsOk = 0 => createReqs <= 1

\* C3 (amended): create is never issued when the listing showed the index
\* (in any of PENDING, BUILDING, READY, FAILED), and a run whose listing
\* showed it leaves the index step without error; consequently runs in
\* sequence, with no drop in between, make at most one create request that
\* succeeds.  A further create request is issued only by a run whose own
\* listing did not show the index.
C3_IdempotentCreate ==
    /\ \A i \in DOMAIN log : log[i].op = "create" =>
         \E j \in 1..(i - 1) : log[j].op = "list" /\ ~Listed(log[j].st)
    /\ Count("create") <= 1
    /\ Has("list", "present") =>
         ~Did("create") /\ outcome \notin {"index_error", "index_failed"}
    /\ dropsOk = 0 => createsOk <= 1

C3_Witness ==
    /\ run = 2
    /\ createsOk = 1
    /\ dropsOk = 0
    /\ Has("list", "present")
    /\ pc = "input_search"

\* C4: when the create request fails with "already exists", the index step
\* polls the status until READY or FAILED before the run goes on, and the
\* error does not end the run.
C4_AlreadyExistsThenPoll ==
    \A i \in DOMAIN log :
        log[i].op = "create" /\ log[i].res = "AlreadyExists" =>
            /\ i = Len(log) => pc \notin {"finally", "done"}
            /\ \A j \in (i + 1)..Len(log) :
                 log[j].op \in Steps => TerminalSeen(i, j)

\* C5: an observation of READY or FAILED ends the poll loop, an observation
\* of any other status or of no index is followed by the sleep and the next
\* observation, and every observation but the first directly follows a sleep.
C5_TerminalDetection ==
    \A i \in DOMAIN log :
        /\ log[i].op = "poll" /\ log[i].res \in Terminal =>
             /\ \A j \in (i + 1)..Len(log) : log[j].op \notin {"poll", "sleep"}
             /\ pc \notin {"poll", "sleep"}
        /\ log[i].op = "poll" /\ log[i].res \in (IndexStates \cup {"EMPTY"}) \ Terminal =>
             /\ i < Len(log) => log[i + 1].op = "sleep"
             /\ i = Len(log) => pc = "sleep"
        /\ log[i].op = "poll" =>
             /\ i > 1
             /\ log[i - 1].op \in {"create", "sleep"}
             /\ log[i - 1].op = "create" => log[i - 1].res = "ok"
        /\ log[i].op = "sleep" =>
             /\ i > 1
             /\ log[i - 1].op = "poll"
             /\ log[i - 1].res \notin Terminal \cup ErrKinds
             /\ i < Len(log) => log[i + 1].op = "poll"
             /\ i = Len(log) => pc = "poll"

C5_Witness ==
    /\ pc = "input_search"
    /\ \E i \in DOMAIN log :
         /\ i + 4 <= Len(log)
         /\ log[i].op = "poll" /\ log[i].res = "EMPTY"
         /\ log[i + 1].op = "sleep"
         /\ log[i + 2].op = "poll" /\ log[i + 2].res = "BUILDING"
         /\ log[i + 3].op = "sleep"
         /\ log[i + 4].op = "poll" /\ log[i + 4].res = "READY"

\* C6: the steps after the index step are reached only after a poll
\* observation of READY or FAILED in the same run.
C6_HandoverOnlyAfterTerminal ==
    \A j \in DOMAIN log : log[j].op \in Steps => TerminalSeen(0, j)

\* C7: after a poll observation of FAILED the search step is skipped, and
\* the run still lists the indexes and asks the drop prompt before close.
C7_FailedIsNonFatal ==
    Has("poll", "FAILED") =>
        /\ ~Did("embed") /\ ~Did("aggregate")
        /\ pc = "done" =>
             Did("list_display") /\ Did("input_drop") /\ Did("close")

\* C8: a run whose ping succeeded has listed the indexes for display by the
\* time it ends.
C8_AlwaysListForDisplay ==
    pc = "done" /\ Has("ping", "ok") => Did("list_display")

\* C9: with a placeholder or empty connection string the run makes no call
\* at all (no client, no ping); after a failed client construction or a
\* failed ping the run ends with no list, create, poll, search or drop and
\* no prompt.
C9_FatalBeforeAnyOperation ==
    /\ conn = <<>> \/ Contains(conn, "<username>") =>
         log = <<>> /\ mongo_client = "None" /\ pc \in {"start", "finally", "done"}
    /\ (\E i \in DOMAIN log :
            log[i].op \in {"MongoClient", "ping"} /\ log[i].res # "ok") =>
         /\ pc \in {"finally", "done"}
         /\ \A j \in DOMAIN log :
              log[j].op \notin StoreOps \cup Prompts \cup {"AzureOpenAI", "embed"}

C9_Witness ==
    /\ pc = "done"
    /\ Has("ping", "ConnectionFailure")
    /\ outcome = "connection"
    /\ mongo_client = "closed"

\* C10: after generate_embedding returned None no similarity query is
\* issued; the next call is the listing for display, followed (when the
\* listing succeeds) by the drop prompt, and the client is closed.
C10_EmbeddingFailureSkipsSearchOnly ==
    \A i \in DOMAIN log :
        log[i].op = "embed" /\ log[i].res = "None" =>
            /\ ~Did("aggregate") /\ pc # "aggregate"
            /\ i < Len(log) => log[i + 1].op = "list_display"
            /\ i = Len(log) => pc = "list_display"
            /\ Has("list_display", "ok") /\ pc \in {"drop", "finally", "done"} =>
                 Did("input_drop")
            /\ pc = "done" => Did("close")

C10_Witness ==
    /\ pc = "done"
    /\ Has("embed", "None")
    /\ Did("input_drop")
    /\ Did("close")

\* the call after entry i, or the position of main() when i is the last
NextIs(i, op, at) ==
    /\ i < Len(log) => log[i + 1].op = op
    /\ i = Len(log) => pc = at

\* C11: a failed similarity query, or a failed set-up of the embedding
\* client, ends the search step only: the next call is the listing for
\* display, followed (when the listing succeeds) by the drop prompt, and the
\* client is closed.
C11_SearchFailureEndsSearchOnly ==
    \A i \in DOMAIN log :
        \/ log[i].op = "aggregate" /\ log[i].res \in ErrKinds
        \/ log[i].op = "AzureOpenAI" /\ log[i].res = "error"
        => /\ NextIs(i, "list_display", "list_display")
           /\ log[i].op = "AzureOpenAI" => ~Did("embed") /\ ~Did("aggregate")
           /\ Has("list_display", "ok") /\ pc \in {"drop", "finally", "done"} =>
                Did("input_drop")
           /\ pc = "done" => Did("close")

C11_Witness ==
    /\ pc = "done"
    /\ Has("aggregate", "OperationFailure")
    /\ Did("input_drop")
    /\ Did("close")

\* C12: after a failed list, create or status request in the index step
\* (other than the already-exists error) the run issues no embedding
\* request, similarity query or drop request and asks no prompt; after a
\* failed listing for display or a failed drop nothing but close follows;
\* main() ends with the client closed.
C12_StoreFailureAbortsToCleanup ==
    \A i \in DOMAIN log :
        log[i].op \in {"list", "create", "poll", "list_display", "drop"}
        /\ log[i].res \in ErrKinds
        => /\ NextIs(i, "close", "finally") \/ (i = Len(log) /\ pc = "done")
           /\ pc \in {"finally", "done"}
           /\ outcome \in {"index_error", "connection", "unexpected"}
           /\ log[i].op \in {"list", "create", "poll"} =>
                \A j \in DOMAIN log :
                    log[j].op \notin {"embed", "aggregate", "drop"} \cup Prompts
           /\ pc = "done" => Did("close") /\ mongo_client = "closed"

C12_Witness ==
    /\ pc = "done"
    /\ Has("create", "OperationFailure")
    /\ outcome = "index_error"
    /\ mongo_client = "closed"

\* the operator typed yes, in any letter case
TypedYes(a) ==
    /\ Len(a) = 3
    /\ a[1] \in {"y", "Y"}
    /\ a[2] \in {"e", "E"}
    /\ a[3] \in {"s", "S"}

Answered(op) == {log[i].typed : i \in {k \in DOMAIN log : log[k].op = op}}

\* C13: an embedding request or similarity query is issued only after the
\* operator typed yes (in any letter case) at the search prompt, a drop
\* request only after the operator typed yes at the drop prompt; after any
\* other answer none of them is issued.
C13_PromptsDefaultToNo ==
    /\ Did("AzureOpenAI") \/ Did("embed") \/ Did("aggregate") \/ pc \in {"azure", "embed", "aggregate"} =>
         \E a \in Answered("input_search") : TypedYes(a)
    /\ Did("drop") \/ pc = "drop" =>
         \E a \in Answered("input_drop") : TypedYes(a)
    /\ \A i \in DOMAIN log :
         /\ log[i].op = "input_search" /\ log[i].res # "EOFError" =>
              IF TypedYes(log[i].typed)
                THEN NextIs(i, "AzureOpenAI", "azure")
                ELSE ~Did("AzureOpenAI") /\ ~Did("embed") /\ ~Did("aggregate")
                     /\ NextIs(i, "list_display", "list_display")
         /\ log[i].op = "input_drop" /\ log[i].res # "EOFError" =>
              IF TypedYes(log[i].typed)
                THEN NextIs(i, "drop", "drop")
                ELSE ~Did("drop") /\ (NextIs(i, "close", "finally") \/ pc = "done")

C13_Witness ==
    /\ pc = "done"
    /\ Answered("input_search") = {<<"Y", "E", "S">>}
    /\ Did("aggregate")
    /\ Answered("input_drop") = {<<>>}
    /\ ~Did("drop")

\* C14: the vector placed in the similarity query is the vector the
\* embedding call returned, unchanged; when its length differs from the
\* dimensions of the index the query fails and the failure is reported by
\* the search step.
C14_QueryVectorUnmodified ==
    /\ pc = "aggregate" => ~query_vector.isNone /\ Has("embed", "vector")
    /\ Did("aggregate") =>
         /\ sent_vector = query_vector
         /\ ~sent_vector.isNone
         /\ Len(query_vector.vec) # VECTOR_DIMENSIONS =>
              \E i \in DOMAIN log :
                  log[i].op = "aggregate" /\ log[i].res \in ErrKinds
    /\ ~Did("aggregate") => sent_vector = None

C14_Witness ==
    /\ pc = "done"
    /\ Did("aggregate")
    /\ query_vector = Some(<<1>>)
    /\ sent_vector = Some(<<1>>)
    /\ ~Has("aggregate", "ok")

\* C16: a run issues at most one create request, one embedding request, one
\* similarity query and one drop request.
C16_NoRetries ==
    /\ Count("create") <= 1
    /\ Count("embed") <= 1
    /\ Count("aggregate") <= 1
    /\ Count("drop") <= 1
    /\ \A i \in DOMAIN log :
         log[i].op \in {"create", "embed", "aggregate", "drop"} =>
            (i < Len(log) => log[i + 1].op # log[i].op)

C16_Witness ==
    /\ pc = "done"
    /\ Has("create", "ok")
    /\ Has("embed", "vector")
    /\ Has("aggregate", "ConnectionFailure")
    /\ Has("drop", "OperationFailure")

\* C17: in a run whose own create request succeeded, the search prompt, the
\* embedding, the similarity query, the listing and the drop come only after
\* a poll observation of READY; after a poll observation of FAILED none of
\* them is executed.
C17_CreatedThenReadyFirst ==
    Has("create", "ok") =>
        /\ \A j \in DOMAIN log :
             log[j].op \in Steps =>
                \E k \in 1..(j - 1) : log[k].op = "poll" /\ log[k].res = "READY"
        /\ pc \in Steps \cup {"azure"} => Has("poll", "READY")
        /\ Has("poll", "FAILED") =>
             /\ \A j \in DOMAIN log : log[j].op \notin Steps
             /\ pc \in {"finally", "done"}

C17_Witness ==
    /\ pc = "done"
    /\ Has("create", "ok")
    /\ Has("poll", "FAILED")
    /\ outcome = "index_failed"

\* C18: every call to the store comes after a successful ping and before
\* close; nothing follows close, and a run that created a client ends with
\* close as its last call.
C18_StoreOpsBetweenPingAndClose ==
    /\ \A i \in DOMAIN log :
         /\ log[i].op \in StoreOps =>
              /\ \E j \in 1..(i - 1) : log[j].op = "ping" /\ log[j].res = "ok"
              /\ \A k \in 1..i : log[k].op # "close"
         /\ log[i].op = "close" => i = Len(log) /\ pc = "done"
    /\ pc \in {"list", "create", "poll", "aggregate", "list_display", "drop"} =>
         Has("ping", "ok") /\ mongo_client = "open"
    /\ pc = "done" /\ Did("MongoClient") /\ mongo_client # "None" =>
         log[Len(log)].op = "close"

C18_Witness ==
    /\ pc = "done"
    /\ Has("drop", "ok")
    /\ Has("aggregate", "ok")
    /\ log[Len(log)].op = "close"

InLoop == pc \in {"poll", "sleep"}

\* C15: the poll loop is left only by an observation of READY or FAILED (or
\* by an error of the status request), never by a timeout or an exhausted
\* budget; and if the store settles on READY or FAILED, a run that is in the
\* loop eventually ends with the client closed.
C15_PollsUntilTerminal ==
    /\ [][InLoop /\ ~InLoop' =>
            /\ log'[Len(log')].op = "poll"
            /\ log'[Len(log')].res \in Terminal \cup ErrKinds]_vars
    /\ (<>[](idx \in Terminal)) =>
         (InLoop ~> (pc = "done" /\ mongo_client = "closed"))

C15_Witness ==
    /\ pc = "done"
    /\ mongo_client = "closed"
    /\ Count("poll") = 3
    /\ Has("poll", "EMPTY")
    /\ Has("poll", "BUILDING")
    /\ Has("poll", "READY")
    /\ Did("input_drop")
=============================================================================
